---- MODULE Spec2Model ----
(***************************************************************************)
(* Model of the SearchBar component (src/src/components/SearchBar.tsx):    *)
(* the debounced search-suggestion aggregator of movie-planet.             *)
(*                                                                         *)
(* A text is a sequence of one-character strings, so that trim,            *)
(* toLowerCase and includes are computed on the characters as the          *)
(* JavaScript string methods compute them.                                 *)
(***************************************************************************)
EXTENDS Integers, Sequences, FiniteSets, TLC

(***************************************************************************)
(* Bounds of the model.                                                    *)
(***************************************************************************)
\* Milliseconds that pass in one Tick step.
TickMs == 250
\* Debounced invocations that may be awaiting a remote response at once.
MaxInflight == 1
\* How many of the displayed trending terms the user clicks on (SpecRecency).
MaxTrendingClickedRecency == 5
\* Debounced invocations that may be awaiting a response at once (SpecRace).
MaxInflightRace == 2
\* fetchMovies calls of the MovieList that may be unsettled at once.
MaxFetches == 2

(***************************************************************************)
(* Texts.                                                                  *)
(***************************************************************************)
Empty == <<>>
Blank == <<" ">>
T_a == <<"a">>
T_b == <<"b">>
T_spa == <<" ", "a">>
T_ac == <<"a", "c">>
T_dr == <<"d", "r">>

Marvel == <<"M", "a", "r", "v", "e", "l">>
Action == <<"A", "c", "t", "i", "o", "n">>
Comedy == <<"C", "o", "m", "e", "d", "y">>
Horror == <<"H", "o", "r", "r", "o", "r">>
SciFi == <<"S", "c", "i", "-", "F", "i">>
Drama == <<"D", "r", "a", "m", "a">>
Thriller == <<"T", "h", "r", "i", "l", "l", "e", "r">>
Animation == <<"A", "n", "i", "m", "a", "t", "i", "o", "n">>
Romance == <<"R", "o", "m", "a", "n", "c", "e">>
Adventure == <<"A", "d", "v", "e", "n", "t", "u", "r", "e">>
Crime == <<"C", "r", "i", "m", "e">>
Documentary == <<"D", "o", "c", "u", "m", "e", "n", "t", "a", "r", "y">>
Family == <<"F", "a", "m", "i", "l", "y">>
Fantasy == <<"F", "a", "n", "t", "a", "s", "y">>
History == <<"H", "i", "s", "t", "o", "r", "y">>
Music == <<"M", "u", "s", "i", "c">>
Mystery == <<"M", "y", "s", "t", "e", "r", "y">>
ScienceFiction ==
    <<"S", "c", "i", "e", "n", "c", "e", " ", "F", "i", "c", "t", "i", "o", "n">>
TVMovie == <<"T", "V", " ", "M", "o", "v", "i", "e">>
War == <<"W", "a", "r">>
Western == <<"W", "e", "s", "t", "e", "r", "n">>

trendingSearches ==
    <<Marvel, Action, Comedy, Horror, SciFi, Drama, Thriller, Animation, Romance>>

popularGenres ==
    <<Action, Adventure, Animation, Comedy, Crime, Documentary, Drama, Family,
      Fantasy, History, Horror, Music, Mystery, Romance, ScienceFiction,
      TVMovie, Thriller, War, Western>>

(***************************************************************************)
(* Program constants.                                                      *)
(***************************************************************************)
DebounceWait == 500
\* MovieList: minLoadTime; MovieDetails: cast.slice(0, 8), trailers.slice(0, 1)
MinLoadTime == 500
MaxCast == 8
MaxTrailers == 1
MaxRecent == 5
MaxTitles == 4
MaxPeople == 3
MaxGenres == 2
MaxShown == 8
RecentShown == 3
TrendingShown == 6

(***************************************************************************)
(* JavaScript string and array methods.                                    *)
(***************************************************************************)
Min(a, b) == IF a < b THEN a ELSE b
Max(a, b) == IF a > b THEN a ELSE b

IsSpace(c) == c \in {" "}

RECURSIVE TrimStart(_)
TrimStart(s) ==
    IF s # <<>> /\ IsSpace(Head(s)) THEN TrimStart(Tail(s)) ELSE s

RECURSIVE TrimEnd(_)
TrimEnd(s) ==
    IF s # <<>> /\ IsSpace(s[Len(s)])
    THEN TrimEnd(SubSeq(s, 1, Len(s) - 1))
    ELSE s

\* String.prototype.trim
Trim(s) == TrimEnd(TrimStart(s))

Upper == <<"A", "C", "D", "F", "H", "M", "R", "S", "T", "V", "W">>
Lower == <<"a", "c", "d", "f", "h", "m", "r", "s", "t", "v", "w">>

LowerChar(c) ==
    IF \E i \in 1..Len(Upper) : Upper[i] = c
    THEN Lower[CHOOSE i \in 1..Len(Upper) : Upper[i] = c]
    ELSE c

\* String.prototype.toLowerCase
ToLowerCase(s) == [i \in 1..Len(s) |-> LowerChar(s[i])]

\* String.prototype.includes
Includes(s, sub) ==
    \E k \in 0..(Len(s) - Len(sub)) : SubSeq(s, k + 1, k + Len(sub)) = sub

\* Array.prototype.slice(0, n)
Slice(s, n) == SubSeq(s, 1, Min(Len(s), n))

\* JavaScript truthiness of a string
Truthy(s) == s # <<>>

(***************************************************************************)
(* State of one SearchBar instance.                                        *)
(***************************************************************************)
VARIABLES
    mounted,          \* the component is mounted
    apiKey,           \* TMDB_API_KEY is set (truthy)
    query,            \* useState: the input's text
    isFocused,        \* useState
    showSuggestions,  \* useState
    recentSearches,   \* useState: the recency list
    isLoading,        \* useState
    apiSuggestions,   \* useState: the batch of the last resolved lookup
    timers,           \* armed timers of the debounced function: [arg, remaining]
    sinceCall,        \* ms since the debounced function was last called, while armed
    inflight,         \* debounced invocations awaiting a response, in the order
                      \* of their start: [searchQuery, pc, suggestions]
    log,              \* the calls of the most recent handler run that made any,
                      \* with what the run found pending: [e, a]
    location,         \* App's route: "/" or the id of /movie/:id
    movieList,        \* the mounted MovieList's useState: [movies, loading,
                      \* error, searchQuery, activeCategory]
    fetches,          \* its fetchMovies calls awaiting their response or their
                      \* minimum delay: [query, category, pc, res, overlapped]
    movieDetails,     \* the mounted MovieDetails' route id and useState: [id,
                      \* movie, cast, videos, loading, error]
    detailRuns        \* its fetchMovieData call awaiting a response: [id, pc]

\* The state of the SearchBar, and the state of the two pages.
searchBar ==
    <<mounted, apiKey, query, isFocused, showSuggestions, recentSearches,
      isLoading, apiSuggestions, timers, sinceCall, inflight, log>>

pages == <<location, movieList, fetches, movieDetails, detailRuns>>

vars == <<searchBar, pages>>

Ev(e, a) == [e |-> e, a |-> a]

LogCount(l, e) == Cardinality({i \in 1..Len(l) : l[i].e = e})

\* The log entry of debounced.cancel(): the argument whose wait it ends, if any.
Cancelled == Ev("cancel", IF timers = <<>> THEN Empty ELSE timers[1].arg)

\* The log entries of a setRecentSearches(t) call: the entry pushed, whether
\* prev held it already, then the entries of prev that the new list `next`
\* no longer holds.
Pushed(prev, next, t) ==
    LET gone == SelectSeq(prev, LAMBDA item :
                    \A i \in 1..Len(next) : next[i] # item)
    IN  <<Ev("setRecentSearches", t)>>
        \o (IF \E i \in 1..Len(prev) : prev[i] = t THEN <<Ev("known", t)>> ELSE <<>>)
        \o [i \in 1..Len(gone) |-> Ev("evict", gone[i])]

Suggestion(text, type) == [text |-> text, type |-> type]

\* A state update of React: dropped once the component is unmounted.
SetState(cur, new) == IF mounted THEN new ELSE cur

\* Mutants of AddRecent: no cap; no removal of the prior occurrence; the last
\* five entries kept instead of the first five.
MutAddRecentNoCap(prev, t) ==
    <<t>> \o SelectSeq(prev, LAMBDA item : item # t)

MutAddRecentNoDedup(prev, t) ==
    Slice(<<t>> \o prev, MaxRecent)

MutAddRecentKeepLast(prev, t) ==
    LET all == <<t>> \o SelectSeq(prev, LAMBDA item : item # t)
    IN  SubSeq(all, Max(1, Len(all) - MaxRecent + 1), Len(all))

\* The setRecentSearches updater: most recent first, no duplicate, at most 5.
AddRecent(prev, t) ==
    Slice(<<t>> \o SelectSeq(prev, LAMBDA item : item # t), MaxRecent)

(***************************************************************************)
(* lodash debounce(func, 500): trailing edge.                              *)
(***************************************************************************)
\* debounced(arg): (re)start the wait with the latest argument.
\* Mutants of DebounceCall: a second timer is armed beside the pending one;
\* a call during a wait replaces the argument but does not restart the wait.
MutDebounceCallQueue(ts, arg) ==
    Append(ts, [arg |-> arg, remaining |-> DebounceWait, restarted |-> ts # <<>>])

MutDebounceCallNoRestart(ts, arg) ==
    <<[arg |-> arg,
       remaining |-> IF ts = <<>> THEN DebounceWait ELSE ts[1].remaining,
       restarted |-> ts # <<>>]>>

\* `restarted` records that the call found a wait already running.
DebounceCall(ts, arg) ==
    <<[arg |-> arg, remaining |-> DebounceWait, restarted |-> ts # <<>>]>>

\* Mutant of DebounceCancel: the pending timer stays armed.
MutDebounceCancelKeeps(ts) == ts

\* debounced.cancel()
DebounceCancel(ts) == <<>>

\* The timers after `ms` more milliseconds.
Elapse(ts, ms) ==
    [i \in 1..Len(ts) |->
        [ts[i] EXCEPT !.remaining = Max(0, ts[i].remaining - ms)]]

RemoveAt(s, i) == SubSeq(s, 1, i - 1) \o SubSeq(s, i + 1, Len(s))

(***************************************************************************)
(* fetchTMDBSuggestions, in the pieces between its awaits.                 *)
(***************************************************************************)
\* Mutant of MovieSuggestions: every title of the response is taken.
MutMovieSuggestionsAll(results) ==
    [i \in 1..Len(results) |-> Suggestion(results[i], "movie")]

\* movieData.results?.slice(0, 4) mapped to suggestions
MovieSuggestions(results) ==
    LET movies == Slice(results, MaxTitles)
    IN  [i \in 1..Len(movies) |-> Suggestion(movies[i], "movie")]

\* personData.results?.slice(0, 3) mapped to suggestions
PersonSuggestions(results) ==
    LET people == Slice(results, MaxPeople)
    IN  [i \in 1..Len(people) |-> Suggestion(people[i], "person")]

\* popularGenres.filter(...).slice(0, 2) mapped to suggestions
GenreSuggestions(searchQuery) ==
    LET q == ToLowerCase(searchQuery)
        matchingGenres ==
            Slice(SelectSeq(popularGenres,
                            LAMBDA genre : /\ Includes(ToLowerCase(genre), q)
                                           /\ ToLowerCase(genre) # q),
                  MaxGenres)
    IN  [i \in 1..Len(matchingGenres) |-> Suggestion(matchingGenres[i], "genre")]

\* The guard of fetchTMDBSuggestions: no request without a key or a query.
SkipsRemote(searchQuery) == ~apiKey \/ ~Truthy(Trim(searchQuery))

(***************************************************************************)
(* getFilteredSuggestions and the dropdown.                                *)
(***************************************************************************)
RecentMatches(q, recents) ==
    LET queryLower == Trim(ToLowerCase(q))
        hits == SelectSeq(recents,
                          LAMBDA search : /\ Includes(ToLowerCase(search), queryLower)
                                          /\ ToLowerCase(search) # queryLower)
    IN  [i \in 1..Len(hits) |-> Suggestion(hits[i], "recent")]

\* Mutants of FilteredSuggestions: the remote batch is placed before the
\* recency matches; the merged list is not cut.
MutFilteredBatchFirst(q, recents, api) ==
    IF ~Truthy(Trim(q))
    THEN <<>>
    ELSE Slice(api \o RecentMatches(q, recents), MaxShown)

MutFilteredNoCap(q, recents, api) ==
    IF ~Truthy(Trim(q))
    THEN <<>>
    ELSE RecentMatches(q, recents) \o api

FilteredSuggestions(q, recents, api) ==
    IF ~Truthy(Trim(q))
    THEN <<>>
    ELSE Slice(RecentMatches(q, recents) \o api, MaxShown)

getFilteredSuggestions == FilteredSuggestions(query, recentSearches, apiSuggestions)

\* Mutant of DiscoverList: every entry of the recency list is shown.
MutDiscoverListAllRecents(recents) ==
    LET t == Slice(trendingSearches, TrendingShown)
    IN  [i \in 1..Len(recents) |-> Suggestion(recents[i], "recent")]
        \o [i \in 1..Len(t) |-> Suggestion(t[i], "trending")]

\* The entries of the dropdown when no query is typed.
DiscoverList(recents) ==
    LET r == Slice(recents, RecentShown)
        t == Slice(trendingSearches, TrendingShown)
    IN  [i \in 1..Len(r) |-> Suggestion(r[i], "recent")]
        \o [i \in 1..Len(t) |-> Suggestion(t[i], "trending")]

\* The buttons of the dropdown, each calling handleSuggestionClick(text).
Dropdown ==
    IF ~showSuggestions
    THEN <<>>
    ELSE IF Truthy(query) THEN getFilteredSuggestions ELSE DiscoverList(recentSearches)

(***************************************************************************)
(* The pages: MovieList (src/src/components/MovieList.tsx) and             *)
(* MovieDetails (src/unnamed/part_000).                                    *)
(***************************************************************************)
\* JavaScript's null, for a state that holds null or a string.
Null == "null"

NoResultsFound == "No results found"
FailedToFetch == "Failed to fetch movies"
FailedToLoad == "Failed to load movie details"

\* A response of the movie service to fetchMovies: a rejection with the
\* status message of its body ("" if it has none), a body with a result
\* list, or a body without one; `elapsed` is the time the request took.
NoResponse == [kind |-> "none", results |-> <<>>, message |-> "", elapsed |-> 0]
ListRejected(message) ==
    [kind |-> "reject", results |-> <<>>, message |-> message, elapsed |-> 0]
ListOk(results, elapsed) ==
    [kind |-> "ok", results |-> results, message |-> "", elapsed |-> elapsed]
ListNoResults(elapsed) ==
    [kind |-> "noresults", results |-> <<>>, message |-> "", elapsed |-> elapsed]

\* MovieList's useState initial values, and its mount effect:
\* fetchMovies("", activeCategory) up to its first await.
ListInitial ==
    [movies |-> <<>>, loading |-> TRUE, error |-> Null,
     searchQuery |-> Empty, activeCategory |-> "popular"]

InitialLoad ==
    <<[query |-> Empty, category |-> "popular", pc |-> "get",
       res |-> NoResponse, overlapped |-> FALSE]>>

\* MovieDetails' useState initial values on the route of movie `id` ("" while
\* no details page is mounted), and its effect: fetchMovieData up to its
\* first await.
DetailsInitial(id) ==
    [id |-> id, movie |-> Null, cast |-> <<>>, videos |-> <<>>,
     loading |-> TRUE, error |-> Null]

FetchMovieData(id) ==
    IF id = "" THEN <<>> ELSE <<[id |-> id, pc |-> "details"]>>

\* The app opened on "/": the MovieList after its first commit.
PagesInit ==
    /\ location = "/"
    /\ movieList = ListInitial
    /\ fetches = InitialLoad
    /\ movieDetails = DetailsInitial("")
    /\ detailRuns = <<>>

(***************************************************************************)
(* Initial state: the component just mounted.                              *)
(***************************************************************************)
InitState ==
    /\ PagesInit
    /\ mounted = TRUE
    /\ query = Empty
    /\ isFocused = FALSE
    /\ showSuggestions = FALSE
    /\ recentSearches = <<>>
    /\ isLoading = FALSE
    /\ apiSuggestions = <<>>
    /\ timers = <<>>
    /\ sinceCall = 0
    /\ inflight = <<>>
    /\ log = <<>>

Init == InitState /\ apiKey = TRUE

InitNoKey == InitState /\ apiKey = FALSE

(***************************************************************************)
(* The debounced function's body: debounce(async (searchQuery) => ...).    *)
(***************************************************************************)
\* Mutant of Complete: a lookup that returns nothing ends the body as an
\* uncaught rejection would.
MutCompleteThrows(prefix, searchQuery, suggestions) ==
    IF suggestions = <<>>
    THEN /\ log' = prefix
         /\ UNCHANGED <<apiSuggestions, recentSearches, isLoading>>
    ELSE /\ apiSuggestions' = SetState(apiSuggestions, suggestions)
         /\ recentSearches' =
                SetState(recentSearches, AddRecent(recentSearches, Trim(searchQuery)))
         /\ isLoading' = SetState(isLoading, FALSE)
         /\ log' = prefix \o <<Ev("onSearch", Trim(searchQuery))>>
                        \o Pushed(recentSearches, recentSearches', Trim(searchQuery))

\* Mutant of Complete: the result of an invocation that ends after a later
\* one has ended is dropped.
MutCompleteLatestOnly(prefix, searchQuery, suggestions) ==
    IF \E i \in 1..Len(prefix) : prefix[i].e = "stale"
    THEN /\ log' = prefix
         /\ UNCHANGED <<apiSuggestions, recentSearches, isLoading>>
    ELSE /\ apiSuggestions' = SetState(apiSuggestions, suggestions)
         /\ recentSearches' =
                SetState(recentSearches, AddRecent(recentSearches, Trim(searchQuery)))
         /\ isLoading' = SetState(isLoading, FALSE)
         /\ log' = prefix \o <<Ev("onSearch", Trim(searchQuery))>>
                        \o Pushed(recentSearches, recentSearches', Trim(searchQuery))

\* Mutant of Complete: a result for a text that is no longer the query is
\* dropped.
MutCompleteCurrentOnly(prefix, searchQuery, suggestions) ==
    IF searchQuery # query
    THEN /\ log' = prefix
         /\ UNCHANGED <<apiSuggestions, recentSearches, isLoading>>
    ELSE /\ apiSuggestions' = SetState(apiSuggestions, suggestions)
         /\ recentSearches' =
                SetState(recentSearches, AddRecent(recentSearches, Trim(searchQuery)))
         /\ isLoading' = SetState(isLoading, FALSE)
         /\ log' = prefix \o <<Ev("onSearch", Trim(searchQuery))>>
                        \o Pushed(recentSearches, recentSearches', Trim(searchQuery))

\* Mutant of Complete: the body ends without setIsLoading(false).
MutCompleteKeepsLoading(prefix, searchQuery, suggestions) ==
    /\ apiSuggestions' = SetState(apiSuggestions, suggestions)
    /\ recentSearches' =
           SetState(recentSearches, AddRecent(recentSearches, Trim(searchQuery)))
    /\ isLoading' = isLoading
    /\ log' = prefix \o <<Ev("onSearch", Trim(searchQuery))>>
                   \o Pushed(recentSearches, recentSearches', Trim(searchQuery))

\* Mutant of Complete: the flag stays true while a timer is pending or
\* another lookup is in flight.
MutCompleteLoadingWhilePending(prefix, searchQuery, suggestions) ==
    /\ apiSuggestions' = SetState(apiSuggestions, suggestions)
    /\ recentSearches' =
           SetState(recentSearches, AddRecent(recentSearches, Trim(searchQuery)))
    /\ isLoading' = SetState(isLoading,
                             isLoading /\ (timers # <<>> \/ Len(inflight) > 1))
    /\ log' = prefix \o <<Ev("onSearch", Trim(searchQuery))>>
                   \o Pushed(recentSearches, recentSearches', Trim(searchQuery))

\* From the resolution of fetchTMDBSuggestions to the end of the body.
Complete(prefix, searchQuery, suggestions) ==
    /\ apiSuggestions' = SetState(apiSuggestions, suggestions)
    /\ recentSearches' =
           SetState(recentSearches, AddRecent(recentSearches, Trim(searchQuery)))
    /\ isLoading' = SetState(isLoading, FALSE)
    /\ log' = prefix \o <<Ev("onSearch", Trim(searchQuery))>>
                   \o Pushed(recentSearches, recentSearches', Trim(searchQuery))

\* From the start of the body to its first await that leaves the event loop.
Invoke(prefix, searchQuery) ==
    IF Truthy(Trim(searchQuery))
    THEN IF SkipsRemote(searchQuery)
         THEN /\ Complete(prefix, searchQuery, <<>>)
              /\ inflight' = inflight
         ELSE /\ inflight' = Append(inflight, [searchQuery |-> searchQuery,
                                              pc |-> "movie",
                                              suggestions |-> <<>>])
              /\ log' = prefix \o <<Ev("fetchMovie", searchQuery)>>
              /\ UNCHANGED <<apiSuggestions, recentSearches, isLoading>>
    ELSE /\ apiSuggestions' = SetState(apiSuggestions, <<>>)
         /\ isLoading' = SetState(isLoading, FALSE)
         /\ log' = prefix \o <<Ev("onSearch", Empty)>>
         /\ UNCHANGED <<recentSearches, inflight>>

(***************************************************************************)
(* Actions.                                                                *)
(***************************************************************************)
HandleInputFocus ==
    /\ mounted /\ ~isFocused
    /\ isFocused' = TRUE
    /\ showSuggestions' = TRUE
    /\ UNCHANGED <<mounted, apiKey, query, recentSearches, isLoading,
                   apiSuggestions, timers, sinceCall, inflight, log>>
    /\ UNCHANGED pages

\* Mutant of HandleInputChange: the text is tested without trim.
MutHandleInputChangeNoTrim(newQuery) ==
    /\ mounted /\ isFocused /\ newQuery # query
    /\ query' = newQuery
    /\ IF Truthy(newQuery)
       THEN /\ isLoading' = TRUE
            /\ timers' = DebounceCall(timers, newQuery)
            /\ log' = <<Ev("handleInputChange", newQuery), Ev("debounce", newQuery)>>
            /\ UNCHANGED apiSuggestions
       ELSE /\ isLoading' = FALSE
            /\ apiSuggestions' = <<>>
            /\ timers' = DebounceCancel(timers)
            /\ log' = <<Ev("handleInputChange", newQuery), Cancelled,
                        Ev("onSearch", Empty)>>
    /\ sinceCall' = 0
    /\ UNCHANGED <<mounted, apiKey, isFocused, showSuggestions, recentSearches,
                   inflight>>
    /\ UNCHANGED pages

HandleInputChange(newQuery) ==
    /\ mounted /\ isFocused /\ newQuery # query
    /\ query' = newQuery
    /\ IF Truthy(Trim(newQuery))
       THEN /\ isLoading' = TRUE
            /\ timers' = DebounceCall(timers, newQuery)
            /\ log' = <<Ev("handleInputChange", newQuery), Ev("debounce", newQuery)>>
            /\ UNCHANGED apiSuggestions
       ELSE /\ isLoading' = FALSE
            /\ apiSuggestions' = <<>>
            /\ timers' = DebounceCancel(timers)
            /\ log' = <<Ev("handleInputChange", newQuery), Cancelled,
                        Ev("onSearch", Empty)>>
    /\ sinceCall' = 0
    /\ UNCHANGED <<mounted, apiKey, isFocused, showSuggestions, recentSearches,
                   inflight>>
    /\ UNCHANGED pages

\* Mutant of HandleClear: clearing the input also clears the recency list.
MutHandleClearForgets ==
    /\ mounted /\ Truthy(query)
    /\ query' = Empty
    /\ isLoading' = FALSE
    /\ apiSuggestions' = <<>>
    /\ timers' = DebounceCancel(timers)
    /\ sinceCall' = 0
    /\ log' = <<Ev("handleClear", Empty), Cancelled, Ev("onSearch", Empty)>>
    /\ isFocused' = TRUE
    /\ showSuggestions' = TRUE
    /\ recentSearches' = <<>>
    /\ UNCHANGED <<mounted, apiKey, inflight>>
    /\ UNCHANGED pages

HandleClear ==
    /\ mounted /\ Truthy(query)
    /\ query' = Empty
    /\ isLoading' = FALSE
    /\ apiSuggestions' = <<>>
    /\ timers' = DebounceCancel(timers)
    /\ sinceCall' = 0
    /\ log' = <<Ev("handleClear", Empty), Cancelled, Ev("onSearch", Empty)>>
    \* inputRef.current?.focus() raises the input's focus event
    /\ isFocused' = TRUE
    /\ showSuggestions' = TRUE
    /\ UNCHANGED <<mounted, apiKey, recentSearches, inflight>>
    /\ UNCHANGED pages

HandleSuggestionClick(suggestion) ==
    /\ mounted
    /\ LET shown == Dropdown
       IN  \E i \in 1..Len(shown) : shown[i].text = suggestion
    /\ query' = suggestion
    /\ showSuggestions' = FALSE
    /\ isFocused' = FALSE
    /\ isLoading' = FALSE
    /\ timers' = DebounceCancel(timers)
    /\ sinceCall' = 0
    /\ recentSearches' = AddRecent(recentSearches, suggestion)
    /\ log' = <<Ev("handleSuggestionClick", suggestion), Cancelled,
                Ev("onSearch", suggestion)>>
               \o Pushed(recentSearches, recentSearches', suggestion)
    /\ UNCHANGED <<mounted, apiKey, apiSuggestions, inflight>>
    /\ UNCHANGED pages

KeyEscape ==
    /\ showSuggestions' = FALSE
    /\ isFocused' = FALSE
    /\ UNCHANGED <<recentSearches, isLoading, timers, sinceCall, log>>

\* Mutants of KeyEnter: the pending timer is left armed; the query is
\* submitted without trim.
MutKeyEnterNoCancel ==
    IF Truthy(Trim(query))
    THEN LET trimmedQuery == Trim(query)
         IN  /\ showSuggestions' = FALSE
             /\ isFocused' = FALSE
             /\ isLoading' = FALSE
             /\ recentSearches' = AddRecent(recentSearches, trimmedQuery)
             /\ log' = <<Ev("keyEnter", query), Ev("cancel", Empty),
                         Ev("onSearch", trimmedQuery)>>
                        \o Pushed(recentSearches, recentSearches', trimmedQuery)
             /\ UNCHANGED <<timers, sinceCall>>
    ELSE /\ log' = <<Ev("keyEnter", query)>>
         /\ UNCHANGED <<showSuggestions, isFocused, isLoading, timers, sinceCall,
                        recentSearches>>

MutKeyEnterRaw ==
    IF Truthy(Trim(query))
    THEN /\ showSuggestions' = FALSE
         /\ isFocused' = FALSE
         /\ isLoading' = FALSE
         /\ timers' = DebounceCancel(timers)
         /\ sinceCall' = 0
         /\ recentSearches' = AddRecent(recentSearches, query)
         /\ log' = <<Ev("keyEnter", query), Cancelled, Ev("onSearch", query)>>
                    \o Pushed(recentSearches, recentSearches', query)
    ELSE /\ log' = <<Ev("keyEnter", query)>>
         /\ UNCHANGED <<showSuggestions, isFocused, isLoading, timers, sinceCall,
                        recentSearches>>

KeyEnter ==
    IF Truthy(Trim(query))
    THEN LET trimmedQuery == Trim(query)
         IN  /\ showSuggestions' = FALSE
             /\ isFocused' = FALSE
             /\ isLoading' = FALSE
             /\ timers' = DebounceCancel(timers)
             /\ sinceCall' = 0
             /\ recentSearches' = AddRecent(recentSearches, trimmedQuery)
             /\ log' = <<Ev("keyEnter", query), Cancelled,
                         Ev("onSearch", trimmedQuery)>>
                        \o Pushed(recentSearches, recentSearches', trimmedQuery)
    ELSE /\ log' = <<Ev("keyEnter", query)>>
         /\ UNCHANGED <<showSuggestions, isFocused, isLoading, timers, sinceCall,
                        recentSearches>>

HandleKeyDown(key) ==
    /\ mounted /\ isFocused
    /\ IF key = "Escape" THEN KeyEscape ELSE key = "Enter" /\ KeyEnter
    /\ UNCHANGED <<mounted, apiKey, query, apiSuggestions, inflight>>
    /\ UNCHANGED pages

\* Mutant of HandleClickOutside: a click outside cancels the pending timer.
MutHandleClickOutsideCancels ==
    /\ mounted
    /\ showSuggestions' = FALSE
    /\ isFocused' = FALSE
    /\ timers' = DebounceCancel(timers)
    /\ UNCHANGED <<mounted, apiKey, query, recentSearches, isLoading,
                   apiSuggestions, sinceCall, inflight, log>>
    /\ UNCHANGED pages

HandleClickOutside ==
    /\ mounted
    /\ showSuggestions' = FALSE
    /\ isFocused' = FALSE
    /\ UNCHANGED <<mounted, apiKey, query, recentSearches, isLoading,
                   apiSuggestions, timers, sinceCall, inflight, log>>
    /\ UNCHANGED pages

\* Mutant of Unmount: the cleanup leaves the debounce timer armed.
MutUnmountNoCancel ==
    /\ mounted
    /\ mounted' = FALSE
    /\ log' = <<Ev("unmount", Empty)>>
    /\ UNCHANGED <<apiKey, query, isFocused, showSuggestions, recentSearches,
                   isLoading, apiSuggestions, timers, sinceCall, inflight>>
    /\ UNCHANGED pages

\* The useEffect cleanup.
Unmount ==
    /\ mounted
    /\ mounted' = FALSE
    /\ timers' = DebounceCancel(timers)
    /\ sinceCall' = 0
    /\ log' = <<Ev("unmount", Empty), Cancelled>>
    /\ UNCHANGED <<apiKey, query, isFocused, showSuggestions, recentSearches,
                   isLoading, apiSuggestions, inflight>>
    /\ UNCHANGED pages

\* Time passes while a timer is armed.
Tick ==
    /\ \E i \in 1..Len(timers) : timers[i].remaining > 0
    /\ timers' = Elapse(timers, TickMs)
    /\ sinceCall' = Min(DebounceWait, sinceCall + TickMs)
    /\ UNCHANGED <<mounted, apiKey, query, isFocused, showSuggestions,
                   recentSearches, isLoading, apiSuggestions, inflight, log>>
    /\ UNCHANGED pages

\* A timer of the debounced function expires: the function runs with its
\* argument, while fewer than `cap` invocations await a response.
FireUpTo(cap) ==
    \E i \in 1..Len(timers) :
        /\ timers[i].remaining = 0
        /\ SkipsRemote(timers[i].arg) \/ Len(inflight) < cap
        /\ timers' = RemoveAt(timers, i)
        /\ sinceCall' = 0
        /\ Invoke(<<Ev("fire", timers[i].arg)>>
                  \o (IF timers[i].restarted
                      THEN <<Ev("restarted", timers[i].arg)>>
                      ELSE <<>>),
                  timers[i].arg)
        /\ UNCHANGED <<mounted, apiKey, query, isFocused, showSuggestions>>
        /\ UNCHANGED pages

DebounceFire == FireUpTo(MaxInflight)

\* The order of the ends, in the log of the end of in-flight invocation i:
\* `stale` if the handler run before this one was the end of an invocation
\* started after it, then an `overtakes` entry for each invocation started
\* before it and still awaiting its response.
Overtaking(i) ==
    (IF LogCount(log, "overtakes") >= i
     THEN <<Ev("stale", inflight[i].searchQuery)>>
     ELSE <<>>)
    \o [j \in 1..(i - 1) |-> Ev("overtakes", inflight[j].searchQuery)]

Rejected == [kind |-> "reject", results |-> <<>>]
NotOk == [kind |-> "notok", results |-> <<>>]
Ok(results) == [kind |-> "ok", results |-> results]

\* Mutant of MovieResponse: a rejected title request is sent once more.
MutMovieResponseRetries(i, r) ==
    /\ i \in 1..Len(inflight)
    /\ inflight[i].pc = "movie"
    /\ LET f == inflight[i]
           pre == <<Ev("movieResponse", f.searchQuery)>>
       IN  IF r.kind = "reject"
           THEN /\ inflight' = inflight
                /\ log' = pre \o <<Ev("fetchMovie", f.searchQuery)>>
                /\ UNCHANGED <<apiSuggestions, recentSearches, isLoading>>
           ELSE /\ inflight' =
                       [inflight EXCEPT ![i] =
                           [searchQuery |-> f.searchQuery,
                            pc |-> "person",
                            suggestions |->
                                IF r.kind = "ok" THEN MovieSuggestions(r.results)
                                                 ELSE <<>>]]
                /\ log' = pre \o <<Ev("fetchPerson", f.searchQuery)>>
                /\ UNCHANGED <<apiSuggestions, recentSearches, isLoading>>
    /\ UNCHANGED <<mounted, apiKey, query, isFocused, showSuggestions, timers,
                   sinceCall>>
    /\ UNCHANGED pages

\* The title request of in-flight invocation i settles with response r.
MovieResponse(i, r) ==
    /\ i \in 1..Len(inflight)
    /\ inflight[i].pc = "movie"
    /\ LET f == inflight[i]
           pre == <<Ev("movieResponse", f.searchQuery)>>
       IN  IF r.kind = "reject"
           THEN /\ Complete(pre \o Overtaking(i), f.searchQuery, <<>>)
                /\ inflight' = RemoveAt(inflight, i)
           ELSE /\ inflight' =
                       [inflight EXCEPT ![i] =
                           [searchQuery |-> f.searchQuery,
                            pc |-> "person",
                            suggestions |->
                                IF r.kind = "ok" THEN MovieSuggestions(r.results)
                                                 ELSE <<>>]]
                /\ log' = pre \o <<Ev("fetchPerson", f.searchQuery)>>
                /\ UNCHANGED <<apiSuggestions, recentSearches, isLoading>>
    /\ UNCHANGED <<mounted, apiKey, query, isFocused, showSuggestions, timers,
                   sinceCall>>
    /\ UNCHANGED pages

\* The person request of in-flight invocation i settles with response r.
PersonResponse(i, r) ==
    /\ i \in 1..Len(inflight)
    /\ inflight[i].pc = "person"
    /\ LET f == inflight[i]
           pre == <<Ev("personResponse", f.searchQuery)>>
       IN  /\ Complete(pre \o Overtaking(i), f.searchQuery,
                       IF r.kind = "reject"
                       THEN <<>>
                       ELSE f.suggestions
                            \o (IF r.kind = "ok" THEN PersonSuggestions(r.results)
                                                 ELSE <<>>)
                            \o GenreSuggestions(f.searchQuery))
           /\ inflight' = RemoveAt(inflight, i)
    /\ UNCHANGED <<mounted, apiKey, query, isFocused, showSuggestions, timers,
                   sinceCall>>
    /\ UNCHANGED pages

(***************************************************************************)
(* MovieList: fetchMovies and its callers.                                 *)
(***************************************************************************)
\* `movies` as the memoized fetchMovies reads it: useCallback(..., []) keeps
\* the function of the first render, whose `movies` is the initial [].
CapturedMovies == <<>>

\* fetchMovies(query, category) up to its first await, in the state `ml` its
\* caller left; the calls already unsettled overlap with the new one.
FetchMovies(ml, q, category) ==
    /\ Len(fetches) < MaxFetches
    /\ movieList' = [ml EXCEPT !.loading = IF Len(CapturedMovies) = 0
                                           THEN TRUE
                                           ELSE @,
                               !.error = Null]
    /\ fetches' =
           Append([i \in 1..Len(fetches) |-> [fetches[i] EXCEPT !.overlapped = TRUE]],
                  [query |-> q, category |-> category, pc |-> "get",
                   res |-> NoResponse, overlapped |-> fetches # <<>>])

\* What the grid shows.
ListView ==
    IF movieList.loading THEN "loading"
    ELSE IF movieList.error # Null THEN "error"
    ELSE IF Len(movieList.movies) = 0 THEN "empty"
    ELSE "movies"

\* A category button, disabled while loading.
HandleCategoryChange(category) ==
    /\ location = "/"
    /\ ~movieList.loading
    /\ FetchMovies([movieList EXCEPT !.searchQuery = IF Truthy(@) THEN Empty ELSE @],
                   Empty, category)
    /\ UNCHANGED <<searchBar, location, movieDetails, detailRuns>>

\* The SearchBar's onSearch callback, and the Clear Search button.
HandleSearch(q) ==
    /\ location = "/"
    /\ FetchMovies(movieList, q, movieList.activeCategory)
    /\ UNCHANGED <<searchBar, location, movieDetails, detailRuns>>

\* The Try Again button of the error view.
TryAgain ==
    /\ location = "/"
    /\ ListView = "error"
    /\ FetchMovies(movieList, movieList.searchQuery, movieList.activeCategory)
    /\ UNCHANGED <<searchBar, location, movieDetails, detailRuns>>

\* The message of the catch block for a rejected request.
ErrorText(r) == IF r.message # "" THEN r.message ELSE FailedToFetch

\* Mutant of Settle: a result list also clears the error.
MutSettleClearsError(i, r) ==
    /\ movieList' =
           IF r.kind = "ok"
           THEN [movieList EXCEPT
                    !.movies = r.results,
                    !.searchQuery = fetches[i].query,
                    !.activeCategory = IF ~Truthy(fetches[i].query)
                                       THEN fetches[i].category
                                       ELSE @,
                    !.error = Null,
                    !.loading = FALSE]
           ELSE [movieList EXCEPT !.movies = <<>>,
                                  !.error = NoResultsFound,
                                  !.loading = FALSE]
    /\ fetches' = RemoveAt(fetches, i)

\* Call i from the end of its waits to its end, with response r.
Settle(i, r) ==
    /\ movieList' =
           IF r.kind = "ok"
           THEN [movieList EXCEPT
                    !.movies = r.results,
                    !.searchQuery = fetches[i].query,
                    !.activeCategory = IF ~Truthy(fetches[i].query)
                                       THEN fetches[i].category
                                       ELSE @,
                    !.loading = FALSE]
           ELSE [movieList EXCEPT !.movies = <<>>,
                                  !.error = NoResultsFound,
                                  !.loading = FALSE]
    /\ fetches' = RemoveAt(fetches, i)

\* The request of call i settles with response r.
ListResponse(i, r) ==
    /\ i \in 1..Len(fetches)
    /\ fetches[i].pc = "get"
    /\ IF r.kind = "reject"
       THEN /\ movieList' = [movieList EXCEPT !.error = ErrorText(r),
                                              !.movies = <<>>,
                                              !.loading = FALSE]
            /\ fetches' = RemoveAt(fetches, i)
       ELSE IF r.elapsed < MinLoadTime
            THEN /\ fetches' = [fetches EXCEPT ![i].pc = "delay", ![i].res = r]
                 /\ UNCHANGED movieList
            ELSE Settle(i, r)
    /\ UNCHANGED <<searchBar, location, movieDetails, detailRuns>>

\* The rest of the minimum loading time of call i has passed.
DelayOver(i) ==
    /\ i \in 1..Len(fetches)
    /\ fetches[i].pc = "delay"
    /\ Settle(i, fetches[i].res)
    /\ UNCHANGED <<searchBar, location, movieDetails, detailRuns>>

(***************************************************************************)
(* MovieDetails: the effect on the route id.                               *)
(***************************************************************************)
DetailsRejected == [kind |-> "reject", data |-> <<>>]
DetailsOk(data) == [kind |-> "ok", data |-> data]

\* videosRes.data.results.filter((v) => v.type === "Trailer").slice(0, 1)
Trailers(results) ==
    Slice(SelectSeq(results, LAMBDA v : v.type = "Trailer"), MaxTrailers)

\* What the page shows.
DetailsView ==
    IF movieDetails.loading THEN "loading"
    ELSE IF movieDetails.error # Null \/ movieDetails.movie = Null THEN "notFound"
    ELSE "movie"

\* A click on a movie card of the grid: the route changes, so the keyed
\* Routes element unmounts the MovieList, whose unsettled calls no longer
\* reach any state, and mounts a MovieDetails.
OpenMovie(id) ==
    /\ location = "/"
    /\ ListView = "movies"
    /\ \E i \in 1..Len(movieList.movies) : movieList.movies[i] = id
    /\ location' = id
    /\ movieList' = ListInitial
    /\ fetches' = <<>>
    /\ movieDetails' = DetailsInitial(id)
    /\ detailRuns' = FetchMovieData(id)
    /\ UNCHANGED searchBar

\* Back to "/": the MovieDetails is unmounted and a MovieList is mounted.
BackToMovies ==
    /\ location # "/"
    /\ location' = "/"
    /\ movieList' = ListInitial
    /\ fetches' = InitialLoad
    /\ movieDetails' = DetailsInitial("")
    /\ detailRuns' = <<>>
    /\ UNCHANGED searchBar

\* Mutant of Failed: the catch block sets no error.
MutFailedSilently(i) ==
    /\ movieDetails' = [movieDetails EXCEPT !.loading = FALSE]
    /\ detailRuns' = RemoveAt(detailRuns, i)

\* A request of run i rejects, or its body is not as expected: the catch
\* block, then the finally block.
Failed(i) ==
    /\ movieDetails' = [movieDetails EXCEPT !.error = FailedToLoad,
                                            !.loading = FALSE]
    /\ detailRuns' = RemoveAt(detailRuns, i)

\* The details request of run i settles.
DetailsResponse(i, r) ==
    /\ i \in 1..Len(detailRuns)
    /\ detailRuns[i].pc = "details"
    /\ IF r.kind = "reject"
       THEN Failed(i)
       ELSE /\ movieDetails' = [movieDetails EXCEPT !.movie = r.data]
            /\ detailRuns' = [detailRuns EXCEPT ![i].pc = "credits"]
    /\ UNCHANGED <<searchBar, location, movieList, fetches>>

\* The credits request of run i settles.
CreditsResponse(i, r) ==
    /\ i \in 1..Len(detailRuns)
    /\ detailRuns[i].pc = "credits"
    /\ IF r.kind = "reject"
       THEN Failed(i)
       ELSE /\ movieDetails' = [movieDetails EXCEPT !.cast = Slice(r.data, MaxCast)]
            /\ detailRuns' = [detailRuns EXCEPT ![i].pc = "videos"]
    /\ UNCHANGED <<searchBar, location, movieList, fetches>>

\* The videos request of run i settles.
VideosResponse(i, r) ==
    /\ i \in 1..Len(detailRuns)
    /\ detailRuns[i].pc = "videos"
    /\ IF r.kind = "reject"
       THEN Failed(i)
       ELSE /\ movieDetails' = [movieDetails EXCEPT !.videos = Trailers(r.data),
                                                    !.loading = FALSE]
            /\ detailRuns' = RemoveAt(detailRuns, i)
    /\ UNCHANGED <<searchBar, location, movieList, fetches>>

(***************************************************************************)
(* Specifications.                                                         *)
(***************************************************************************)
\* The first n of the trending terms displayed.
ClickedTrending(n) ==
    {trendingSearches[i] : i \in 1..Min(n, Min(TrendingShown, Len(trendingSearches)))}

\* What the user clicks on in the dropdown: any entry, but of the trending
\* terms only those of `trending`.
Clicked(trending) ==
    LET shown == Dropdown
    IN  {shown[i].text : i \in {j \in 1..Len(shown) :
                                   shown[j].type = "trending"
                                       => shown[j].text \in trending}}

\* One step of the component without the metadata service, for a user typing
\* the texts of `inputs` and clicking, of the trending terms, on `trending`.
UserStep(inputs, trending) ==
    \/ HandleInputFocus
    \/ \E t \in inputs : HandleInputChange(t)
    \/ HandleClear
    \/ \E s \in Clicked(trending) : HandleSuggestionClick(s)
    \/ \E key \in {"Escape", "Enter"} : HandleKeyDown(key)
    \/ HandleClickOutside
    \/ Unmount
    \/ Tick
    \/ DebounceFire

\* One step of the component, with a metadata service answering with `movies`
\* and `people`.
Step(inputs, trending, movies, people) ==
    \/ UserStep(inputs, trending)
    \/ \E i \in 1..MaxInflight, r \in movies : MovieResponse(i, r)
    \/ \E i \in 1..MaxInflight, r \in people : PersonResponse(i, r)

\* The debounce and the submissions, against a service that answers; the
\* user clicks on recent and API suggestions only.
Inputs == {Empty, Blank, T_spa, T_b}
PaddedTitle == <<"A", "c", " ">>
MovieResponses == {Rejected, Ok(<<PaddedTitle>>)}
PersonResponses == {NotOk}

Next == Step(Inputs, {}, MovieResponses, PersonResponses)

Spec == Init /\ [][Next]_vars

\* The debounce under fair scheduling: the event loop runs every due timer and
\* the service settles every request, with failures only; the user is free to
\* act or to stay quiet.
InputsLive == {Blank, T_spa, T_b}
MovieResponsesLive == {Rejected, NotOk}
PersonResponsesLive == {Rejected, NotOk}

NextLive == Step(InputsLive, {}, MovieResponsesLive, PersonResponsesLive)

\* The user's acts that reach the debounced function or the callback.
UserAct ==
    \/ \E t \in InputsLive : HandleInputChange(t)
    \/ HandleClear
    \/ \E s \in Clicked({}) : HandleSuggestionClick(s)
    \/ \E key \in {"Escape", "Enter"} : HandleKeyDown(key)
    \/ Unmount

Responses ==
    \/ \E i \in 1..MaxInflight, r \in MovieResponsesLive : MovieResponse(i, r)
    \/ \E i \in 1..MaxInflight, r \in PersonResponsesLive : PersonResponse(i, r)

SpecLive ==
    /\ Init
    /\ [][NextLive]_vars
    /\ WF_vars(Tick)
    /\ WF_vars(DebounceFire)
    /\ WF_vars(Responses)

\* The recency list: no API key, so a debounced fire completes in one step;
\* the user types one text and clicks on the trending terms.
InputsRecency == {Empty, T_a}

NextRecency == UserStep(InputsRecency, ClickedTrending(MaxTrendingClickedRecency))

SpecRecency == InitNoKey /\ [][NextRecency]_vars

\* The merged list: the user types texts that match genres and recency
\* entries and clicks on recent entries and on the trending term Action; the
\* service answers with more titles and people than a batch takes, or fails.
InputsMerge == {T_a, T_ac}
TrendingMerge == {Action}
Titles == <<<<"M", "1">>, <<"M", "2">>, <<"M", "3">>, <<"M", "4">>, <<"M", "5">>>>
People == <<<<"P", "1">>, <<"P", "2">>, <<"P", "3">>, <<"P", "4">>>>
MovieResponsesMerge == {Ok(Titles), Rejected}
PersonResponsesMerge == {Ok(People), NotOk}

\* The dropdown entries of the recency list and of `trending`.
ClickedLocal(trending) ==
    LET shown == Dropdown
    IN  {shown[i].text : i \in {j \in 1..Len(shown) :
                                   \/ shown[j].type = "recent"
                                   \/ /\ shown[j].type = "trending"
                                      /\ shown[j].text \in trending}}

NextMerge ==
    \/ HandleInputFocus
    \/ \E t \in InputsMerge : HandleInputChange(t)
    \/ HandleClear
    \/ \E s \in ClickedLocal(TrendingMerge) : HandleSuggestionClick(s)
    \/ \E key \in {"Escape", "Enter"} : HandleKeyDown(key)
    \/ HandleClickOutside
    \/ Unmount
    \/ Tick
    \/ DebounceFire
    \/ \E i \in 1..MaxInflight, r \in MovieResponsesMerge : MovieResponse(i, r)
    \/ \E i \in 1..MaxInflight, r \in PersonResponsesMerge : PersonResponse(i, r)

SpecMerge == Init /\ [][NextMerge]_vars

\* Overlapping lookups: the user types two texts, each matching one genre,
\* and a second timer may fire while the lookup of the first is in flight;
\* the responses arrive in any order.
InputsRace == {T_ac, T_dr}
MovieResponsesRace == {Ok(Titles), Rejected}
PersonResponsesRace == {NotOk}

NextRace ==
    \/ HandleInputFocus
    \/ \E t \in InputsRace : HandleInputChange(t)
    \/ HandleClear
    \/ \E s \in ClickedLocal({}) : HandleSuggestionClick(s)
    \/ \E key \in {"Escape", "Enter"} : HandleKeyDown(key)
    \/ HandleClickOutside
    \/ Unmount
    \/ Tick
    \/ FireUpTo(MaxInflightRace)
    \/ \E i \in 1..MaxInflightRace, r \in MovieResponsesRace : MovieResponse(i, r)
    \/ \E i \in 1..MaxInflightRace, r \in PersonResponsesRace : PersonResponse(i, r)

SpecRace == Init /\ [][NextRace]_vars

\* The pages: the MovieList with searches of two texts, two of the
\* categories, and a service that rejects with or without a status message,
\* or answers with a result list, an empty one, or none, sooner or later than
\* the minimum loading time; the MovieDetails of the movies listed, each of
\* its requests answered with its data or rejected.
ListQueries == {Empty, T_a}
ListCategories == {"popular", "top_rated"}
Found == <<"m1", "m2">>
ListResponses ==
    {ListRejected(""), ListRejected("Invalid API key"),
     ListOk(Found, 0), ListOk(Found, MinLoadTime), ListOk(<<>>, MinLoadTime),
     ListNoResults(MinLoadTime)}
Credits == <<"c1", "c2", "c3", "c4", "c5", "c6", "c7", "c8", "c9">>
Clips ==
    <<[type |-> "Teaser", key |-> "k1"], [type |-> "Trailer", key |-> "k2"],
      [type |-> "Trailer", key |-> "k3"]>>

NextPages ==
    \/ \E category \in ListCategories : HandleCategoryChange(category)
    \/ \E q \in ListQueries : HandleSearch(q)
    \/ TryAgain
    \/ \E i \in 1..MaxFetches, r \in ListResponses : ListResponse(i, r)
    \/ \E i \in 1..MaxFetches : DelayOver(i)
    \/ \E id \in {"m1", "m2"} : OpenMovie(id)
    \/ BackToMovies
    \/ DetailsResponse(1, DetailsRejected)
    \/ DetailsResponse(1, DetailsOk(location))
    \/ \E r \in {DetailsRejected, DetailsOk(Credits)} : CreditsResponse(1, r)
    \/ \E r \in {DetailsRejected, DetailsOk(Clips)} : VideosResponse(1, r)

SpecPages == Init /\ [][NextPages]_vars

(***************************************************************************)
(* Reading the log and the recency list.                                   *)
(***************************************************************************)
LogHas(e, a) == \E i \in 1..Len(log) : log[i] = Ev(e, a)

\* The most recent handler run that made a call was `e`.
Ran(e) == log # <<>> /\ log[1].e = e

Elems(l) == {l[i] : i \in 1..Len(l)}

Without(l, t) == SelectSeq(l, LAMBDA item : item # t)

IsPrefix(a, b) == Len(a) <= Len(b) /\ SubSeq(b, 1, Len(a)) = a

NoDuplicate(l) == \A i, j \in 1..Len(l) : i # j => l[i] # l[j]

\* This step is an expiry of the debounce timer.
FireStep == Len(timers') < Len(timers) /\ log' # <<>> /\ log'[1].e = "fire"

(***************************************************************************)
(* The claims.                                                             *)
(***************************************************************************)

\* C1: in every reachable state at most one debounce timer is armed; a call
\* of the debounced function while a timer is pending replaces that timer.
C1_OneTimerArmed == Len(timers) <= 1

\* A timer armed by an input change that found an earlier one pending.
C1_Witness == Len(timers) = 1 /\ timers[1].restarted /\ timers[1].arg = T_b

\* C2, safety: the debounced function runs only when the full wait has passed
\* since the last input change, it runs with the text of that last change (the
\* current query), and the expiry leaves no timer armed.
C2_FiresLastText ==
    [][FireStep =>
          /\ sinceCall >= DebounceWait
          /\ Len(timers) = 1
          /\ timers' = <<>>
          /\ log'[1].a = query
          /\ log'[1].a = timers[1].arg]_vars

\* C2, liveness: unless the user keeps acting for ever, the pending timer
\* goes: once the input is quiet no timer stays armed.
C2_FiresAfterPause == ([]<><<UserAct>>_vars) \/ <>[](timers = <<>>)

\* C2: trailing-edge debounce. A run of non-empty input changes followed by a
\* quiet period yields exactly one lookup, after the wait, with the last text.
C2_TrailingEdge == C2_FiresLastText /\ C2_FiresAfterPause

\* A lookup that fired with the last text after an earlier text was superseded.
C2_Witness ==
    /\ Ran("fire")
    /\ log[1].a = T_b
    /\ LogHas("restarted", T_b)
    /\ LogHas("fetchMovie", T_b)

\* C3: Enter with a query that is non-empty after trim, or a click on a
\* suggestion, cancels the pending timer and calls the search callback once,
\* in that step, with the submitted text; afterwards no timer is pending, and
\* a timer is armed again only by a later input change.
C3_SubmitState ==
    LET submitted == IF Ran("keyEnter") THEN Trim(log[1].a) ELSE log[1].a
    IN  (Ran("keyEnter") /\ Truthy(Trim(log[1].a))) \/ Ran("handleSuggestionClick")
            => /\ timers = <<>>
               /\ log[2].e = "cancel"
               /\ log[3] = Ev("onSearch", submitted)
               /\ LogCount(log, "onSearch") = 1

C3_ImmediateSubmit ==
    /\ []C3_SubmitState
    /\ [][timers = <<>> /\ timers' # <<>>
              => log'[1].e = "handleInputChange" /\ timers'[1].arg = query']_vars

\* A click on a suggestion that cancelled a pending timer.
C3_Witness ==
    /\ Ran("handleSuggestionClick")
    /\ log[2].e = "cancel"
    /\ log[2].a = T_b
    /\ timers = <<>>

\* C4: an input change to a text that is empty after trim empties the API
\* suggestion batch, cancels the pending timer and calls the search callback
\* with the empty string in that same step, and sends no remote request.
C4_BlankInput ==
    Ran("handleInputChange") /\ ~Truthy(Trim(log[1].a))
        => /\ apiSuggestions = <<>>
           /\ timers = <<>>
           /\ log[2].e = "cancel"
           /\ log[3] = Ev("onSearch", Empty)
           /\ LogCount(log, "onSearch") = 1
           /\ LogCount(log, "fetchMovie") = 0
           /\ LogCount(log, "fetchPerson") = 0
           /\ LogCount(log, "debounce") = 0

\* A whitespace-only input that cancelled the timer pending for " a".
C4_Witness ==
    /\ log # <<>>
    /\ log[1] = Ev("handleInputChange", Blank)
    /\ log[2] = Ev("cancel", T_spa)

\* C5: the recency list never has more than 5 entries.
C5_AtMostFive == Len(recentSearches) <= 5

\* A full list from which a sixth submission evicted an entry.
C5_Witness ==
    /\ Len(recentSearches) = 5
    /\ LogCount(log, "evict") = 1

\* C6: the recency list holds no text twice; a submission puts its text at
\* position 0 exactly once and keeps the other entries in their order; and
\* submitting a text twice in a row gives the list of submitting it once.
C6_State ==
    /\ NoDuplicate(recentSearches)
    /\ \A t \in Elems(recentSearches) \cup Elems(trendingSearches) \cup {T_a} :
           AddRecent(AddRecent(recentSearches, t), t) = AddRecent(recentSearches, t)

C6_Deduplicated ==
    /\ []C6_State
    /\ [][log' # log /\ mounted /\ LogCount(log', "setRecentSearches") = 1
              => \E i \in 1..Len(log') :
                    /\ log'[i].e = "setRecentSearches"
                    /\ recentSearches' # <<>>
                    /\ recentSearches'[1] = log'[i].a
                    /\ Len(Without(recentSearches', log'[i].a))
                           = Len(recentSearches') - 1
                    /\ IsPrefix(Without(recentSearches', log'[i].a),
                                Without(recentSearches, log'[i].a))]_vars

\* A text that was already in the list, further down, moved to position 0.
C6_Witness ==
    /\ LogHas("known", Marvel)
    /\ recentSearches[1] = Marvel
    /\ Len(recentSearches) >= 3
    /\ LogCount(log, "evict") = 0

\* C7: when the list holds 5 entries and a text not in it is submitted, the
\* last entry is removed, the new text is at position 0 and the other 4
\* entries follow in their order.
C7_EvictsOldest ==
    [][/\ log' # log
       /\ mounted
       /\ Len(recentSearches) = 5
       /\ \E i \in 1..Len(log') :
              /\ log'[i].e = "setRecentSearches"
              /\ log'[i].a \notin Elems(recentSearches)
       => \E i \in 1..Len(log') :
              /\ log'[i].e = "setRecentSearches"
              /\ recentSearches' = <<log'[i].a>> \o SubSeq(recentSearches, 1, 4)]_vars

\* The typed text "a" pushed onto a full list, evicting its last entry.
C7_Witness ==
    /\ Len(recentSearches) = 5
    /\ recentSearches[1] = T_a
    /\ LogHas("setRecentSearches", T_a)
    /\ \E i \in 1..Len(log) : log[i].e = "evict" /\ log[i].a \notin Elems(recentSearches)

\* C8: Enter with a query that is non-empty after trim calls the search
\* callback exactly once, with the trimmed query, and the trimmed query is then
\* at position 0 of the recency list.
C8_EnterSubmits ==
    Ran("keyEnter") /\ Truthy(Trim(log[1].a))
        => /\ log[1].a = query
           /\ LogCount(log, "onSearch") = 1
           /\ LogHas("onSearch", Trim(query))
           /\ ~IsSpace(Head(Trim(query)))
           /\ ~IsSpace(Trim(query)[Len(Trim(query))])
           /\ recentSearches # <<>>
           /\ recentSearches[1] = Trim(query)

\* Enter on " a": the callback got "a" and "a" heads the recency list.
C8_Witness ==
    /\ log # <<>>
    /\ log[1] = Ev("keyEnter", T_spa)
    /\ LogHas("onSearch", T_a)
    /\ recentSearches[1] = T_a

\* C9: on every accepted submission the search callback is called with the
\* trimmed text before the recency list is updated, and the text pushed to
\* position 0 is that same trimmed text.
C9_TrimmedThenPushed ==
    log # <<>> /\ log[1].e \in {"fire", "movieResponse", "personResponse",
                               "keyEnter", "handleSuggestionClick"}
               /\ LogCount(log, "setRecentSearches") > 0
        => \E i, j \in 1..Len(log) :
              /\ i < j
              /\ log[i] = Ev("onSearch", Trim(log[1].a))
              /\ log[j] = Ev("setRecentSearches", Trim(log[1].a))
              /\ (mounted => recentSearches[1] = Trim(log[1].a))

\* C10: clearing the input (the clear button, or an input change to a text
\* that is empty after trim) calls the search callback with the empty string
\* and leaves the recency list as it was.
ClearStep ==
    /\ log' # log
    /\ log' # <<>>
    /\ \/ log'[1].e = "handleClear"
       \/ log'[1].e = "handleInputChange" /\ ~Truthy(Trim(log'[1].a))

C10_ClearKeepsRecency ==
    [][ClearStep =>
          /\ recentSearches' = recentSearches
          /\ \E i \in 1..Len(log') : log'[i] = Ev("onSearch", Empty)
          /\ LogCount(log', "onSearch") = 1
          /\ LogCount(log', "setRecentSearches") = 0]_vars

\* The clear button pressed while the recency list holds entries.
C10_Witness ==
    /\ Ran("handleClear")
    /\ LogHas("onSearch", Empty)
    /\ recentSearches # <<>>
    /\ query = Empty

(***************************************************************************)
(* Reading the merged list and the batch.                                  *)
(***************************************************************************)
OfType(l, type) == SelectSeq(l, LAMBDA sg : sg.type = type)

NotOfType(l, type) == SelectSeq(l, LAMBDA sg : sg.type # type)

Texts(l) == [i \in 1..Len(l) |-> l[i].text]

\* The place of a suggestion's group in the merged list.
Rank(type) ==
    CASE type = "recent" -> 1
      [] type = "movie" -> 2
      [] type = "person" -> 3
      [] type = "genre" -> 4

\* Text s contains text q, whatever the case, and is not q itself.
Contains(s, q) ==
    LET lq == ToLowerCase(Trim(q))
    IN  /\ \E a \in 0..(Len(s) - Len(lq)) :
              \A c \in 1..Len(lq) : LowerChar(s[a + c]) = lq[c]
        /\ ToLowerCase(s) # lq

\* The entries of list l that contain text q, in the order of l.
Containing(l, q) ==
    LET Hit(k) == Contains(l[k], q)
        F[k \in 0..Len(l)] ==
            IF k = 0 THEN <<>>
            ELSE IF Hit(k) THEN Append(F[k - 1], l[k]) ELSE F[k - 1]
    IN  F[Len(l)]

\* The concatenation the merged list is cut from.
Concatenation ==
    LET r == Containing(recentSearches, query)
    IN  [i \in 1..Len(r) |-> Suggestion(r[i], "recent")] \o apiSuggestions

\* C11: for a non-empty query the merged list holds, in this order, the
\* recency entries that contain the query and are not equal to it, then the
\* title matches, the person matches and the genre matches of the batch, each
\* group in its source order; a recency match precedes a genre match of the
\* same text.
C11_MergeOrder ==
    Truthy(Trim(query)) =>
        LET L == getFilteredSuggestions
        IN  /\ \A i, j \in 1..Len(L) :
                   i < j => Rank(L[i].type) <= Rank(L[j].type)
            /\ IsPrefix(Texts(OfType(L, "recent")),
                        Containing(recentSearches, query))
            /\ IsPrefix(NotOfType(L, "recent"), apiSuggestions)
            /\ Len(L) < MaxShown => Len(L) = Len(Concatenation)
            /\ \A i, j \in 1..Len(L) :
                   /\ L[i].type = "recent"
                   /\ L[j].type = "genre"
                   /\ L[i].text = L[j].text
                   => i < j

\* The query "ac" with the recency entry Action, titles and the genre Action.
C11_Witness ==
    /\ query = T_ac
    /\ Len(getFilteredSuggestions) > 2
    /\ getFilteredSuggestions[1] = Suggestion(Action, "recent")
    /\ getFilteredSuggestions[2].type = "movie"
    /\ getFilteredSuggestions[Len(getFilteredSuggestions)]
           = Suggestion(Action, "genre")

\* C12: the merged list shown for a non-empty query never has more than 8
\* entries; when the concatenation of the recency matches and the batch is
\* longer, the list is exactly its first 8 entries.
C12_AtMostEight ==
    /\ Len(getFilteredSuggestions) <= MaxShown
    /\ Truthy(Trim(query)) /\ Len(Concatenation) > MaxShown
           => getFilteredSuggestions = SubSeq(Concatenation, 1, MaxShown)

\* Recency matches and a full batch: more than 8 candidates, 8 shown.
C12_Witness ==
    /\ Truthy(Trim(query))
    /\ Len(OfType(Concatenation, "recent")) > 1
    /\ Len(apiSuggestions) = MaxTitles + MaxPeople + MaxGenres
    /\ Len(getFilteredSuggestions) = MaxShown
    /\ getFilteredSuggestions[MaxShown].type = "person"

\* C13: a batch holds at most 4 title matches, 3 person matches and 2 genre
\* matches, in this order, each group being the first entries of its source:
\* the titles and the people of a response, and the genres that contain the
\* text the batch was built for.
C13_BatchCaps ==
    LET m == OfType(apiSuggestions, "movie")
        p == OfType(apiSuggestions, "person")
        g == OfType(apiSuggestions, "genre")
    IN  /\ apiSuggestions = m \o p \o g
        /\ Len(m) <= 4 /\ Len(p) <= 3 /\ Len(g) <= 2
        /\ \E r \in MovieResponsesMerge :
               Texts(m) = SubSeq(r.results, 1, Min(4, Len(r.results)))
        /\ \E r \in PersonResponsesMerge :
               Texts(p) = SubSeq(r.results, 1, Min(3, Len(r.results)))
        /\ mounted /\ Ran("personResponse")
               => LET src == Containing(popularGenres, log[1].a)
                  IN  Texts(g) = SubSeq(src, 1, Min(2, Len(src)))

\* A batch built from 5 titles, 4 people and a text that many genres contain.
C13_Witness ==
    /\ mounted /\ Ran("personResponse")
    /\ Len(Containing(popularGenres, log[1].a)) > 2
    /\ Texts(apiSuggestions)
           = SubSeq(Titles, 1, 4) \o SubSeq(People, 1, 3) \o <<Action, Adventure>>

\* A debounced lookup has just run to its end, on its title response or on
\* its person response.
LookupEnded ==
    /\ log # <<>>
    /\ log[1].e \in {"movieResponse", "personResponse"}
    /\ LogCount(log, "onSearch") > 0

\* C14: a failing title lookup does not abort the batch: the lookup goes on
\* to its person response, and the batch it ends with holds the genre matches
\* of its text (and the person matches of that response).
C14_TitleFailureKeepsRest ==
    mounted /\ LookupEnded =>
        /\ Ran("personResponse")
        /\ LET src == Containing(popularGenres, log[1].a)
           IN  Texts(OfType(apiSuggestions, "genre"))
                   = SubSeq(src, 1, Min(2, Len(src)))

\* C15: without an API key a debounced fire sends no request, and the list
\* shown for the text it ran for still holds the genres and the recency
\* entries that contain the text.
C15_LocalWithoutKey ==
    /\ ~apiKey /\ mounted
    /\ Ran("fire") /\ LogCount(log, "onSearch") > 0
    /\ query = log[1].a
    => LET src == Containing(popularGenres, query)
           genres == SubSeq(src, 1, Min(2, Len(src)))
           recents == Containing(recentSearches, query)
       IN  /\ LogCount(log, "fetchMovie") = 0
           /\ inflight = <<>>
           /\ Texts(OfType(getFilteredSuggestions, "recent")) = recents
           /\ Texts(OfType(getFilteredSuggestions, "genre")) = genres

\* C16: the title request and the person request of a debounced fire are
\* both sent when the timer fires, the person request without waiting for the
\* title response.
C16_BothSentAtFire ==
    Ran("fire") /\ LogCount(log, "fetchMovie") > 0
        => /\ LogCount(log, "fetchPerson") > 0
           /\ \A i \in 1..Len(inflight) : inflight[i].pc # "movie"

\* C17: unmounting cancels the pending debounce timer, and once unmounted
\* the component stays so, no timer is armed and none fires: the text of the
\* cancelled timer reaches neither a lookup nor the search callback.
C17_UnmountCancels ==
    [][/\ mounted /\ ~mounted'
           => /\ timers' = <<>>
              /\ \E i \in 1..Len(log') : log'[i].e = "cancel"
       /\ ~mounted
           => /\ ~mounted'
              /\ timers' = <<>>
              /\ ~FireStep
              /\ log' # log => log'[1].e \in {"movieResponse", "personResponse"}]_vars

\* Unmounted while the timer armed for "b" was waiting.
C17_Witness ==
    /\ ~mounted
    /\ timers = <<>>
    /\ log = <<Ev("unmount", Empty), Ev("cancel", T_b)>>

\* C18: once the component is unmounted, the resolution of a lookup still in
\* flight calls nothing and changes nothing: no search callback, the same
\* batch, recency list and loading flag.
C18_ResolutionDisregarded ==
    [][~mounted /\ log' # log
           => /\ LogCount(log', "onSearch") = 0
              /\ apiSuggestions' = apiSuggestions
              /\ recentSearches' = recentSearches
              /\ isLoading' = isLoading]_vars

\* This step is a submission by Enter or by a click on a suggestion.
SubmitStep ==
    /\ log' # log
    /\ log' # <<>>
    /\ log'[1].e \in {"keyEnter", "handleSuggestionClick"}
    /\ LogCount(log', "onSearch") > 0

\* This step is Escape or a click outside: the dropdown is hidden and the
\* input is no longer focused, and no call is made.
HideStep ==
    /\ mounted'
    /\ isFocused \/ showSuggestions
    /\ ~isFocused' /\ ~showSuggestions'
    /\ log' = log

\* C19 (amended): the pending debounce timer is cancelled when the input is
\* cleared, on a submission by Enter or by a suggestion click, and on
\* unmount; Escape and a click outside leave it armed as it is.
C19_CancelPoints ==
    [][/\ ClearStep \/ SubmitStep \/ (mounted /\ ~mounted') => timers' = <<>>
       /\ HideStep => timers' = timers]_vars

\* The input has lost focus by Escape or a click outside while the timer for
\* its text is waiting.
C19_Witness ==
    /\ mounted
    /\ ~isFocused /\ ~showSuggestions
    /\ timers # <<>>
    /\ timers[1].arg = query
    /\ Ran("handleInputChange")

\* C19: after the input is cleared, after it loses focus (Escape, a click
\* outside) and after unmount, no debounce timer is pending.
C19_NoTimerAfterClearBlurUnmount ==
    [][\/ ClearStep
       \/ isFocused /\ ~isFocused'
       \/ mounted /\ ~mounted'
       => timers' = <<>>]_vars

\* This step is the end of a lookup, on its title response or on its person
\* response; the log of the step starts with the response and its text.
EndStep ==
    /\ Len(inflight') < Len(inflight)
    /\ log' # <<>>
    /\ log'[1].e \in {"movieResponse", "personResponse"}

\* C20: responses are taken as they arrive: whenever a lookup ends, whether
\* or not a lookup fired after it has ended before, the batch becomes that of
\* its text (empty after a rejected request, else ending with the genres that
\* contain the text), the search callback gets its text and its text moves to
\* recency position 0. A lookup that ends with none fired after it (as all do when
\* lookups never overlap) so leaves the batch of the most recently fired text.
C20_LastResolutionWins ==
    [][mounted /\ EndStep =>
          LET t == log'[1].a
              genres == OfType(apiSuggestions', "genre")
          IN  /\ \E i \in 1..Len(inflight) : inflight[i].searchQuery = t
              /\ \E i \in 1..Len(log') : log'[i] = Ev("onSearch", Trim(t))
              /\ recentSearches' # <<>> /\ recentSearches'[1] = Trim(t)
              /\ ~isLoading'
              /\ IF log'[1].e = "personResponse"
                 THEN /\ genres # <<>>
                      /\ \A i \in 1..Len(genres) : Contains(genres[i].text, t)
                 ELSE apiSuggestions' = <<>>]_vars

\* The lookup for "ac" has ended after the lookup for "dr", fired later, had
\* ended: the batch, the callback and recency position 0 hold "ac".
C20_Witness ==
    /\ mounted
    /\ Ran("personResponse")
    /\ LogHas("stale", T_ac)
    /\ LogHas("onSearch", T_ac)
    /\ query = T_dr
    /\ recentSearches = <<T_ac, T_dr>>
    /\ Texts(OfType(apiSuggestions, "genre")) = <<Action>>

\* C21: with an empty query the dropdown shows the first 3 entries of the
\* recency list (all of a shorter list), then the first 6 trending terms, and
\* nothing of the batch.
C21_DiscoverMode ==
    showSuggestions /\ query = Empty =>
        LET n == IF Len(recentSearches) < 3 THEN Len(recentSearches) ELSE 3
        IN  /\ Len(Dropdown) = n + 6
            /\ \A i \in 1..n :
                   Dropdown[i] = Suggestion(recentSearches[i], "recent")
            /\ Texts(SubSeq(Dropdown, n + 1, n + 6))
                   = <<Marvel, Action, Comedy, Horror, SciFi, Drama>>
            /\ \A i \in (n + 1)..(n + 6) : Dropdown[i].type = "trending"

\* The dropdown open on an empty query with more than 3 recent searches.
C21_Witness ==
    /\ showSuggestions /\ query = Empty
    /\ Len(recentSearches) > 3
    /\ Len(Dropdown) = 9

\* C22: a debounced fire whose requests all fail still runs to its end: the
\* lookup ends, and at its end the batch holds no title and no person, the
\* search callback gets the trimmed text, the text is at recency position 0
\* and the loading flag is false; unless lookups go on firing for ever, no
\* lookup stays in flight.
C22_FailureNotFatal ==
    /\ [][mounted /\ EndStep =>
              LET t == Trim(log'[1].a)
              IN  /\ OfType(apiSuggestions', "movie") = <<>>
                  /\ OfType(apiSuggestions', "person") = <<>>
                  /\ \E i \in 1..Len(log') : log'[i] = Ev("onSearch", t)
                  /\ recentSearches' # <<>> /\ recentSearches'[1] = t
                  /\ ~isLoading']_vars
    /\ \/ []<><<DebounceFire>>_vars
       \/ (inflight # <<>>) ~> (inflight = <<>>)

\* The lookup for "b" has ended on a rejected or refused request.
C22_Witness ==
    /\ mounted /\ LookupEnded
    /\ log[1].a = T_b
    /\ LogHas("onSearch", T_b)
    /\ apiSuggestions = <<>>
    /\ recentSearches[1] = T_b
    /\ ~isLoading

\* C23: no request is sent twice.  A title request is sent only by a debounce
\* fire, once, and starts a lookup; a person request is sent only at the title
\* response of its lookup, once; the end of a lookup and a failed response
\* send no request of the kind that failed, and a lookup never goes back to
\* awaiting its title response.
C23_NoRetry ==
    [][/\ LogCount(log', "fetchMovie") <= 1
       /\ LogCount(log', "fetchPerson") <= 1
       /\ LogCount(log', "fetchMovie") > 0 /\ ~FireStep => log' = log
       /\ FireStep => Len(inflight') <= Len(inflight) + 1
       /\ Len(inflight') > Len(inflight) =>
              /\ FireStep
              /\ LogCount(log', "fetchMovie") = 1
              /\ inflight' = Append(inflight, inflight'[Len(inflight')])
              /\ inflight'[Len(inflight')].pc = "movie"
       /\ LogCount(log', "fetchPerson") > 0 =>
              /\ log'[1].e = "movieResponse"
              /\ LogCount(log', "fetchMovie") = 0
       /\ log' # <<>> /\ log'[1].e = "personResponse" =>
              LogCount(log', "fetchMovie") + LogCount(log', "fetchPerson") = 0
       /\ EndStep =>
              LogCount(log', "fetchMovie") + LogCount(log', "fetchPerson") = 0
       /\ Len(inflight') = Len(inflight) =>
              \A i \in 1..Len(inflight) :
                  /\ inflight'[i].searchQuery = inflight[i].searchQuery
                  /\ inflight[i].pc = "person" => inflight'[i] = inflight[i]
                  /\ inflight'[i] # inflight[i] =>
                         /\ log'[1] = Ev("movieResponse", inflight[i].searchQuery)
                         /\ LogCount(log', "fetchPerson") = 1]_vars

\* A lookup has ended on a rejected title request, and nothing is in flight
\* or pending after it.
C23_Witness ==
    /\ mounted
    /\ Ran("movieResponse") /\ LookupEnded
    /\ LogCount(log, "fetchMovie") + LogCount(log, "fetchPerson") = 0
    /\ inflight = <<>> /\ timers = <<>>
    /\ recentSearches # <<>> /\ query = recentSearches[1]

\* C25: in every state a pending debounce timer carries the current query,
\* and the query is then non-empty after trim; so no timer is pending while
\* the query is empty or whitespace.
C25_TimerCarriesQuery ==
    \A i \in 1..Len(timers) :
        /\ Truthy(Trim(query))
        /\ timers[i].arg = query

\* A timer re-armed by a second keystroke is pending for the padded text the
\* input holds, after the dropdown was hidden.
C25_Witness ==
    /\ mounted
    /\ Len(timers) = 1
    /\ timers[1].restarted
    /\ timers[1].arg = T_spa /\ query = T_spa
    /\ ~showSuggestions

\* C26: cancelling the debounce does not stop a lookup that has fired.  A
\* clear, an Enter submission or a suggestion click cancels the timer and
\* leaves every lookup in flight; when such a lookup ends later, whatever the
\* query is by then, the batch becomes that lookup's, the search callback
\* gets its text and its text is at recency position 0.
C26_CancelKeepsLookup ==
    [][/\ ClearStep \/ SubmitStep =>
              /\ LogCount(log', "cancel") = 1
              /\ timers' = <<>>
              /\ inflight' = inflight
       /\ mounted /\ EndStep =>
              \E i \in 1..Len(inflight) :
                  LET f == inflight[i]
                      t == Trim(f.searchQuery)
                  IN  /\ inflight' = RemoveAt(inflight, i)
                      /\ log'[1].a = f.searchQuery
                      /\ \/ apiSuggestions' = <<>>
                         \/ /\ apiSuggestions' # <<>>
                            /\ IsPrefix(f.suggestions, apiSuggestions')
                      /\ \E j \in 1..Len(log') : log'[j] = Ev("onSearch", t)
                      /\ recentSearches' # <<>> /\ recentSearches'[1] = t
                      /\ query' = query]_vars

\* The input was cleared while the lookup for "ac" was in flight; the lookup
\* has ended since, with titles, so the callback's last argument is "ac" and
\* the query is empty.
C26_Witness ==
    /\ mounted
    /\ query = Empty
    /\ LookupEnded
    /\ log[1].a = T_ac
    /\ LogHas("onSearch", T_ac)
    /\ recentSearches[1] = T_ac
    /\ OfType(apiSuggestions, "movie") # <<>>

\* C27, the callback: a timer pending for text t in the mounted component
\* leads to the end of the lookup for t, with the loading flag false and the
\* search callback called with t trimmed, unless the component is unmounted,
\* the timer is cancelled or another input change takes the timer over.
C27_LookupEnds ==
    \A t \in {T_spa, T_b} :
        (mounted /\ timers # <<>> /\ timers[1].arg = t)
            ~> \/ ~mounted
               \/ LogHas("cancel", t)
               \/ timers # <<>> /\ timers[1].arg # t
               \/ /\ LookupEnded
                  /\ log[1].a = t
                  /\ LogHas("onSearch", Trim(t))
                  /\ ~isLoading

\* C27, the flag: unless the user goes on changing the input for ever, a
\* loading flag that is true in the mounted component becomes false (or the
\* component is unmounted).
C27_FlagFalls ==
    \/ []<><<\E t \in InputsLive : HandleInputChange(t)>>_vars
    \/ (mounted /\ isLoading) ~> (~mounted \/ ~isLoading)

\* C27: the loading flag set by an input change does not stay true for ever:
\* with the input quiet, the component mounted and every request settling,
\* the lookup for the text ends, the flag is false and the callback has the
\* trimmed text.
C27_LoadingEnds == C27_LookupEnds /\ C27_FlagFalls

\* The lookup for the padded text " a" has ended: the callback got "a", the
\* flag is false and nothing is pending.
C27_Witness ==
    /\ mounted
    /\ query = T_spa
    /\ LookupEnded
    /\ log[1].a = T_spa
    /\ LogHas("onSearch", T_a)
    /\ ~isLoading
    /\ timers = <<>> /\ inflight = <<>>

\* C28: the loading flag follows the ends of lookups, not what is pending: a
\* lookup that ends while a timer is pending or another lookup is in flight
\* sets the flag to false and leaves the timer and the other lookups as they
\* are.
C28_FlagNotTiedToPending ==
    [][mounted /\ EndStep /\ (timers # <<>> \/ Len(inflight) > 1) =>
          /\ ~isLoading'
          /\ timers' = timers
          /\ Len(inflight') = Len(inflight) - 1
          /\ timers' # <<>> \/ inflight' # <<>>]_vars

\* The flag is false after the end of an earlier lookup, while a later
\* lookup is in flight and a timer is pending for the current query.
C28_Witness ==
    /\ mounted
    /\ ~isLoading
    /\ LookupEnded
    /\ LogCount(log, "overtakes") + LogCount(log, "stale") = 0
    /\ inflight # <<>>
    /\ timers # <<>> /\ timers[1].arg = query

(***************************************************************************)
(* Reading the pages.                                                      *)
(***************************************************************************)
\* This step starts a fetchMovies call of the mounted MovieList.
FetchStart == location' = location /\ Len(fetches') > Len(fetches)

\* This step ends a fetchMovies call of the mounted MovieList.
FetchEnd == location' = location /\ Len(fetches') < Len(fetches)

\* This step ends the fetchMovieData call of the mounted MovieDetails.
RunEnd == location' = location /\ Len(detailRuns') < Len(detailRuns)

\* C24: fetchMovies puts the list into the loading state at its start only
\* when the list holds no movie: a fetch that starts while movies are
\* displayed leaves the loading flag as it is.
C24_LoadingOnlyWhenEmpty ==
    [][FetchStart =>
          movieList'.loading = IF Len(movieList.movies) = 0
                               THEN TRUE
                               ELSE movieList.loading]_vars

\* C29: a fetchMovies call that no other call overlaps ends with the loading
\* flag false and either the error null and the movies those of the response,
\* or the movies empty and the error set.  A call that ends with a non-empty
\* result list after an overlapping call has failed leaves that error set:
\* the list holds movies, the error is not null, and the grid shows the error
\* view.
C29_FetchOutcomes ==
    [][FetchEnd =>
          /\ ~movieList'.loading
          /\ Len(fetches) = 1 /\ ~fetches[1].overlapped =>
                 /\ \/ /\ movieList'.error = Null
                       /\ \E r \in ListResponses :
                              r.kind = "ok" /\ movieList'.movies = r.results
                       /\ fetches[1].pc = "delay" =>
                              movieList'.movies = fetches[1].res.results
                       /\ movieList'.searchQuery = fetches[1].query
                    \/ /\ movieList'.movies = <<>>
                       /\ movieList'.error # Null
          /\ movieList.error # Null /\ movieList'.movies # <<>> =>
                 /\ movieList'.error = movieList.error
                 /\ ListView' = "error"]_vars

\* Two overlapping calls have ended, the failing one first: the list holds
\* the movies of the second, with the error of the first.
C29_Witness ==
    /\ fetches = <<>>
    /\ movieList.movies = Found
    /\ movieList.error = FailedToFetch
    /\ ~movieList.loading
    /\ ListView = "error"

\* C30: the details, the credits and the videos are loaded one after the
\* other in one try block.  A run that ends after its details response, by a
\* failing credits or videos request (no trailer is set by then), leaves the
\* movie set and the error set, and the page shows Movie Not Found; every run
\* ends with the loading flag false.
C30_PartialFailure ==
    [][RunEnd =>
          /\ ~movieDetails'.loading
          /\ \A i \in 1..Len(detailRuns) :
                 /\ detailRuns' = RemoveAt(detailRuns, i)
                 /\ \/ detailRuns[i].pc = "credits"
                    \/ detailRuns[i].pc = "videos" /\ movieDetails'.videos = <<>>
                 => /\ movieDetails'.movie # Null
                    /\ movieDetails'.error = FailedToLoad
                    /\ DetailsView' = "notFound"
          /\ movieDetails'.error # Null => DetailsView' = "notFound"]_vars

\* The only run has ended on a failing videos request: the movie and its
\* cast are set, and the page shows Movie Not Found.
C30_Witness ==
    /\ detailRuns = <<>>
    /\ movieDetails.movie = "m1"
    /\ Len(movieDetails.cast) = MaxCast
    /\ movieDetails.videos = <<>>
    /\ movieDetails.error = FailedToLoad
    /\ ~movieDetails.loading
    /\ DetailsView = "notFound"

====
